---------------------------- MODULE Spec2Model ----------------------------
(***************************************************************************)
(* A model of the pymfe meta-feature extraction code:                       *)
(*   - the General group            (src/pymfe/general.py),                 *)
(*   - the Model-Based group        (src/pymfe/model_based.py),             *)
(*   - the developer sample group   (src/pymfe/dev.py),                     *)
(*   - the extraction engine (group registry, dependency resolver,          *)
(*     precomputation cache, generic invoker), whose code is not part of    *)
(*     the sources at hand and is modelled from its specification.          *)
(*                                                                         *)
(* Python values are represented as follows.                                *)
(*   None            the empty tuple << >>                                  *)
(*   a value v that may be None   the one-element tuple <<v>>               *)
(*   a 1-D array     a sequence                                             *)
(*   X               its shape, [rows |-> .., cols |-> ..]                  *)
(*   a float result  a record [kind, num, den]: an exact fraction num/den   *)
(*                   in lowest terms (kind "num"), nan (kind "nan"), or an  *)
(*                   exception leaving the routine (kind "raise")           *)
(*   an array result a record [kind |-> "array", items |-> <<..>>]          *)
(* Division is the exact quotient: binary64 rounding is not modelled.       *)
(***************************************************************************)
EXTENDS Integers, Sequences, FiniteSets, TLC

VARIABLES
    X,              \* shape of the attribute matrix X
    cat_cols,       \* indices of the categorical columns of X (a list)
    ret,            \* value returned by each ft_ routine called directly
    y,              \* target vector, or None
    N,              \* shape of the numeric attribute matrix N, or None
    random_state,   \* the seed given by the user, or None
    argument_foo,   \* sample group: optional array argument
    argument_bar,   \* sample group: optional integer argument
    fitted,         \* what DecisionTreeClassifier.fit gives on (N, y)
    pool0,          \* the shared pool at the start of the precomputation pass
    sklearn_fit,    \* the tree fit builds on (N, y) with each seed
    np_random,      \* what np.random.randint(10, size=1) draws after each seed
    runs,           \* two extraction runs on the same data and random_state
    pool,           \* the shared pool of precomputed values
    called,         \* number of invocations of each precomputation routine
    routine,        \* the precomputation routine invoked last
    kwargs,         \* the pool it received as **kwargs
    returned,       \* the dictionary it returned
    fits,           \* number of calls of DecisionTreeClassifier.fit
    phase,          \* the pass the extraction call is in
    resolved,       \* the groups the call extracts, prerequisites included
    groups,         \* the groups the user requested
    GROUP_PREREQUISITES,  \* the prerequisite groups registered for each group
    reresolved,     \* the resolver's output on its own output, or None
    user,           \* the user's overrides of parameters, by name
    queue,          \* the features still to extract, in order
    ftState,        \* the state of each feature of the call
    ftArgs,         \* the arguments each feature's routine was given
    attempts        \* number of times each feature was attempted

genVars == <<X, cat_cols, ret>>
rngVars == <<sklearn_fit, np_random, runs>>
ctxVars ==
    <<y, N, random_state, argument_foo, argument_bar, fitted, pool0, rngVars>>
preVars == <<pool, called, routine, kwargs, returned, fits, phase, resolved>>
resVars == <<groups, GROUP_PREREQUISITES, reresolved>>
ftVars == <<user, queue, ftState, ftArgs, attempts>>
vars == <<genVars, ctxVars, preVars, resVars, ftVars>>

-----------------------------------------------------------------------------
(* Bounds of the model *)
MaxRows == 3
MaxCols == 3
\* longest target vector and largest tree in the precomputation pass
MaxY == 2
MaxNodes == 3
\* longest target vector and largest class label given to the routines that
\* work on the target vector
MaxLen == 3
MaxClass == 2
\* largest tree given to the routines that work on a fitted tree
MaxTreeNodes == 5
\* largest seed of the pseudo-random generators
MaxSeed == 1

-----------------------------------------------------------------------------
(* Python values *)

None == << >>
Some(v) == <<v>>
IsNone(o) == o = << >>
Val(o) == o[1]

Abs(n) == IF n < 0 THEN -n ELSE n

RECURSIVE Gcd(_, _)
Gcd(a, b) == IF b = 0 THEN a ELSE Gcd(b, a % b)

\* np.nan
NaN == [kind |-> "nan", num |-> 0, den |-> 0]

\* an exception propagating out of the routine
ZeroDivisionError == [kind |-> "raise", num |-> 0, den |-> 0]

\* the routine has not been called
NotCalled == [kind |-> "notcalled", num |-> 0, den |-> 0]

\* the float a / b, b # 0, kept exact
Float(a, b) ==
    LET g == Gcd(Abs(a), Abs(b))
        s == IF b < 0 THEN -1 ELSE 1
    IN [kind |-> "num", num |-> (s * a) \div g, den |-> (s * b) \div g]

\* Python's  a / b  on two ints
TrueDiv(a, b) == IF b = 0 THEN ZeroDivisionError ELSE Float(a, b)

\* Python's  u * v  on two floats
Mul(u, v) == Float(u.num * v.num, u.den * v.den)

\* Python's  u + v  on two floats
Add(u, v) == Float(u.num * v.den + v.num * u.den, u.den * v.den)

\* a numpy array as a routine's result
Array(items) == [kind |-> "array", items |-> items]

\* np.sum of an array of floats
RECURSIVE Sum(_)
Sum(a) == IF a = << >> THEN Float(0, 1) ELSE Add(Head(a), Sum(Tail(a)))

IsNumber(v) == v.kind = "num"

\* the elements of a set as a list, in some order
RECURSIVE SetToSeq(_)
SetToSeq(S) ==
    IF S = {} THEN << >>
    ELSE LET m == CHOOSE a \in S : TRUE
         IN <<m>> \o SetToSeq(S \ {m})

\* the elements of a set of integers as an ascending list
RECURSIVE SortedSeq(_)
SortedSeq(S) ==
    IF S = {} THEN << >>
    ELSE LET m == CHOOSE a \in S : \A b \in S : a <= b
         IN <<m>> \o SortedSeq(S \ {m})

-----------------------------------------------------------------------------
(* General group: src/pymfe/general.py *)

GeneralFts == {"attr_to_inst", "inst_to_attr", "cat_to_num", "num_to_cat"}

\* the routines of the General group that work on the target vector
LabelFts == {"freq_class", "nr_class"}

\* the routines of the Model-Based group called on a table
TreeFts ==
    {"leaves", "leaves_branch", "leaves_per_class", "nodes", "nodes_repeated",
     "tree_shape", "tree_imbalance"}

ft_attr_to_inst(x) == TrueDiv(x.cols, x.rows)

ft_inst_to_attr(x) == TrueDiv(x.rows, x.cols)

\* ft_cat_to_num without the test for a dataset without numeric columns
ft_cat_to_num_unguarded(x, cc) == TrueDiv(Len(cc), x.cols - Len(cc))

ft_cat_to_num(x, cc) ==
    LET num_cat == Len(cc)
    IN IF x.cols = num_cat
       THEN NaN
       ELSE TrueDiv(num_cat, x.cols - num_cat)

ft_num_to_cat(x, cc) ==
    IF cc = << >>
    THEN NaN
    ELSE LET num_cat == Len(cc)
         IN TrueDiv(x.cols - num_cat, num_cat)

\* np.unique(a): the distinct values of a, ascending
Range(a) == {a[i] : i \in DOMAIN a}
Unique(a) == SortedSeq(Range(a))

\* np.unique(a, return_counts=True)[1]
UniqueCounts(a) ==
    LET u == Unique(a)
    IN [i \in DOMAIN u |-> Cardinality({j \in DOMAIN a : a[j] = u[i]})]

\* np.unique(a, return_inverse=True)[1]: the (0-based) index in Unique(a) of
\* each entry
UniqueInverse(a) ==
    LET u == Unique(a)
    IN [j \in DOMAIN a |-> (CHOOSE i \in DOMAIN u : u[i] = a[j]) - 1]

\* a dictionary without entries
EmptyDict == [k \in {} |-> None]

\* ft_freq_class dividing by the number of classes
ft_freq_class_per_class(yv, class_freqs) ==
    IF Len(yv) = 0 THEN Array(<<NaN>>)
    ELSE LET freqs == IF IsNone(class_freqs) THEN UniqueCounts(yv)
                      ELSE Val(class_freqs)
         IN Array([i \in DOMAIN freqs |-> TrueDiv(freqs[i], Len(freqs))])

\* ft_freq_class without the test for an empty y
ft_freq_class_unchecked(yv, class_freqs) ==
    LET freqs == IF IsNone(class_freqs) THEN UniqueCounts(yv)
                 ELSE Val(class_freqs)
    IN Array([i \in DOMAIN freqs |-> TrueDiv(freqs[i], Len(yv))])

ft_freq_class(yv, class_freqs) ==
    IF Len(yv) = 0 THEN Array(<<NaN>>)
    ELSE LET freqs == IF IsNone(class_freqs) THEN UniqueCounts(yv)
                      ELSE Val(class_freqs)
         IN Array([i \in DOMAIN freqs |-> TrueDiv(freqs[i], Len(yv))])

\* ft_nr_class looking at y before classes
ft_nr_class_y_first(yy, classes) ==
    IF ~IsNone(yy) THEN Float(Len(Unique(Val(yy))), 1)
    ELSE IF IsNone(classes) THEN NaN
    ELSE Float(Len(Val(classes)), 1)

ft_nr_class(yy, classes) ==
    IF ~IsNone(classes) THEN Float(Len(Val(classes)), 1)
    ELSE IF IsNone(yy) THEN NaN
    ELSE Float(Len(Unique(Val(yy))), 1)

\* What a precomputation routine does when called: the dictionary it returns
\* (vals), whether an exception left it instead (raised), and how many times it
\* called DecisionTreeClassifier.fit (fits).
Returns(d) == [vals |-> d, raised |-> FALSE, fits |-> 0]

\* precompute_general_class with the guard of another routine's keys
precompute_general_class_other_keys(yy, kw) ==
    IF ~IsNone(yy) /\ ~({"model", "table", "tree_depth"} \subseteq DOMAIN kw)
    THEN Returns(("classes" :> Unique(Val(yy)))
                 @@ ("class_freqs" :> UniqueCounts(Val(yy))))
    ELSE Returns(EmptyDict)

precompute_general_class(yy, kw) ==
    IF ~IsNone(yy) /\ ~({"classes", "class_freqs"} \subseteq DOMAIN kw)
    THEN Returns(("classes" :> Unique(Val(yy)))
                 @@ ("class_freqs" :> UniqueCounts(Val(yy))))
    ELSE Returns(EmptyDict)

-----------------------------------------------------------------------------
(* Model-Based group: src/pymfe/model_based.py *)

\* A fitted DecisionTreeClassifier: the arrays of model.tree_ (node i at index
\* i + 1; -1: no child, -2: no split feature), model.apply(N) for the fitted N
\* and the seed it was built with.  ok = FALSE stands for fit raising.
Model(l, r, f, s, a, rs) ==
    [ok |-> TRUE, children_left |-> l, children_right |-> r, feature |-> f,
     n_node_samples |-> s, apply |-> a, random_state |-> rs]

FitError ==
    [ok |-> FALSE, children_left |-> << >>, children_right |-> << >>,
     feature |-> << >>, n_node_samples |-> << >>, apply |-> << >>,
     random_state |-> None]

node_count(model) == Len(model.children_left)

\* The table of node properties: row i + 1 is <<feature, is leaf, samples,
\* class>> of node i.  Column 3 of a node some row of N falls in is taken from
\* the first key of the Counter over the (1-based) classes of those rows, i.e.
\* the class of the first such row, plus 1.
extract_table(n, yv, model) ==
    LET leaves == model.apply
        y1 == [j \in DOMAIN yv |-> UniqueInverse(yv)[j] + 1]
        hit(x) == {j \in DOMAIN leaves : leaves[j] = x}
        first(x) == CHOOSE j \in hit(x) : \A k \in hit(x) : j <= k
    IN [i \in 1..node_count(model) |->
           IF hit(i - 1) # {}
           THEN <<model.feature[i], 1, model.n_node_samples[i],
                  y1[first(i - 1)] + 1>>
           ELSE <<model.feature[i], 0, model.n_node_samples[i], 0>>]

\* node_depth going down to every child there is
RECURSIVE node_depth_any_child(_, _, _, _)
node_depth_any_child(node, depth, l, r) ==
    <<depth>>
    \o (IF l[node + 1] # -1
        THEN node_depth_any_child(l[node + 1], depth + 1, l, r) ELSE << >>)
    \o (IF r[node + 1] # -1
        THEN node_depth_any_child(r[node + 1], depth + 1, l, r) ELSE << >>)

\* node_depth giving the right child its parent's depth
RECURSIVE node_depth_flat_right(_, _, _, _)
node_depth_flat_right(node, depth, l, r) ==
    <<depth>> \o
    (IF l[node + 1] # -1 /\ r[node + 1] # -1
     THEN node_depth_flat_right(l[node + 1], depth + 1, l, r)
          \o node_depth_flat_right(r[node + 1], depth, l, r)
     ELSE << >>)

\* The depth of each node, in the order the recursive walk meets the nodes.
RECURSIVE node_depth(_, _, _, _)
node_depth(node, depth, l, r) ==
    <<depth>> \o
    (IF l[node + 1] # -1 /\ r[node + 1] # -1
     THEN node_depth(l[node + 1], depth + 1, l, r)
          \o node_depth(r[node + 1], depth + 1, l, r)
     ELSE << >>)

tree_depth(model) ==
    node_depth(0, 0, model.children_left, model.children_right)

\* the nodes in the order the walk of node_depth meets them
RECURSIVE node_order(_, _, _)
node_order(node, l, r) ==
    <<node>> \o
    (IF l[node + 1] # -1 /\ r[node + 1] # -1
     THEN node_order(l[node + 1], l, r) \o node_order(r[node + 1], l, r)
     ELSE << >>)

\* table[:, c]
Column(table, c) == [i \in DOMAIN table |-> table[i][c + 1]]

\* a[mask]: the entries of a at the indices where mask holds, in order
RECURSIVE Masked(_, _)
Masked(a, mask) ==
    IF a = << >> THEN << >>
    ELSE (IF Head(mask) THEN <<Head(a)>> ELSE << >>)
         \o Masked(Tail(a), Tail(mask))

\* the keys of Counter(a): the distinct entries in the order they first occur
RECURSIVE CounterKeys(_)
CounterKeys(a) ==
    IF a = << >> THEN << >>
    ELSE LET front == CounterKeys(SubSeq(a, 1, Len(a) - 1))
             last == a[Len(a)]
         IN IF last \in Range(front) THEN front ELSE Append(front, last)

\* list(Counter(a).values())
CounterValues(a) ==
    LET keys == CounterKeys(a)
    IN [i \in DOMAIN keys |-> Cardinality({j \in DOMAIN a : a[j] = keys[i]})]

\* numpy's a / b on integers: a zero divisor gives inf or nan, not an exception
Inf == [kind |-> "inf", num |-> 0, den |-> 0]
NpDiv(a, b) == IF b = 0 THEN (IF a = 0 THEN NaN ELSE Inf) ELSE Float(a, b)

\* the number of rows of the table whose column 1 is 1
ft_leaves(table) ==
    Cardinality({i \in DOMAIN table : table[i][2] = 1})

ft_leaves_branch(table, depths) ==
    Array(Masked(depths, [i \in DOMAIN table |-> table[i][2] = 1]))

ft_leaves_per_class(table) ==
    LET aux == CounterValues(Column(table, 3))
        rest == SubSeq(aux, 2, Len(aux))
    IN Array([i \in DOMAIN rest |-> NpDiv(rest[i], ft_leaves(table))])

ft_nodes(table) ==
    Cardinality({i \in DOMAIN table : table[i][2] # 1})

\* 1.0 / 2**tree_depth[table[:, 1] == 1]: for each row whose column 1 is 1,
\* the probability that a random walk from the root arrives at the depth
\* selected for it
arrival_probs(table, depths) ==
    LET aux == Masked(depths, [i \in DOMAIN table |-> table[i][2] = 1])
    IN [i \in DOMAIN aux |-> Float(1, 2 ^ aux[i])]

\* -(p) * np.log2(p) for p = 1 / 2**d, which is d / 2**d
ft_tree_shape(table, depths) ==
    LET aux == Masked(depths, [i \in DOMAIN table |-> table[i][2] = 1])
    IN Array([i \in DOMAIN aux |-> Float(aux[i], 2 ^ aux[i])])

\* The distinct arrival probabilities, each times the number of leaves that
\* have it (tmp[0] * tmp[1]); of each product x the routine returns
\* -(1 / 2**x) * np.log2(1 / 2**x), that is x / 2**x, which is kept as the
\* expression of x since it is not a fraction.
ft_tree_imbalance(table, depths) ==
    LET aux == arrival_probs(table, depths)
        dens == SortedSeq({-aux[i].den : i \in DOMAIN aux})
        count(d) == Cardinality({i \in DOMAIN aux : aux[i].den = d})
    IN Array([k \in DOMAIN dens |->
                 [kind |-> "x / 2**x",
                  x |-> Float(count(-dens[k]), -dens[k])]])

ft_nodes_repeated(table) ==
    LET col == Column(table, 0)
        aux == Masked(col, [i \in DOMAIN col |-> col[i] > 0])
    IN Array(CounterValues(aux))

\* precompute_model_based_class fitting whatever the pool holds
precompute_model_based_class_refit(n, yy, rs, kw, fit) ==
    IF ~IsNone(n) /\ ~IsNone(yy)
    THEN IF fit.ok
         THEN [vals |-> ("model" :> fit)
                        @@ ("table" :> extract_table(Val(n), Val(yy), fit))
                        @@ ("tree_depth" :> tree_depth(fit)),
               raised |-> FALSE, fits |-> 1]
         ELSE [vals |-> EmptyDict, raised |-> TRUE, fits |-> 1]
    ELSE Returns(EmptyDict)

precompute_model_based_class(n, yy, rs, kw, fit) ==
    IF ~IsNone(n) /\ ~IsNone(yy)
       /\ ~({"model", "table", "tree_depth"} \subseteq DOMAIN kw)
    THEN IF fit.ok
         THEN [vals |-> ("model" :> fit)
                        @@ ("table" :> extract_table(Val(n), Val(yy), fit))
                        @@ ("tree_depth" :> tree_depth(fit)),
               raised |-> FALSE, fits |-> 1]
         ELSE [vals |-> EmptyDict, raised |-> TRUE, fits |-> 1]
    ELSE Returns(EmptyDict)

-----------------------------------------------------------------------------
(* The decision trees fit can return *)

\* A tree shape: the sequence of <<left, right>> child ids, node i at i + 1.
Shift(t, d) ==
    [i \in DOMAIN t |->
        IF t[i] = <<-1, -1>> THEN t[i] ELSE <<t[i][1] + d, t[i][2] + d>>]

\* The shapes with k nodes in which every node has two children or none, the
\* ids given in the order of a depth-first build (a node, its left subtree,
\* its right subtree).
RECURSIVE PreorderTrees(_)
PreorderTrees(k) ==
    IF k = 1 THEN {<< <<-1, -1>> >>}
    ELSE IF k % 2 = 0 THEN {}
    ELSE UNION {{<< <<1, 1 + i>> >> \o Shift(a, 1) \o Shift(b, 1 + i) :
                    a \in PreorderTrees(i), b \in PreorderTrees(k - 1 - i)} :
                i \in {j \in 1..(k - 2) : j % 2 = 1}}

IsLeafOf(t, i) == t[i + 1] = <<-1, -1>>
LeavesOf(t) == {i \in 0..(Len(t) - 1) : IsLeafOf(t, i)}

\* the leaves below node i (i itself when it is a leaf)
RECURSIVE LeavesBelow(_, _)
LeavesBelow(t, i) ==
    IF IsLeafOf(t, i) THEN {i}
    ELSE LeavesBelow(t, t[i + 1][1]) \cup LeavesBelow(t, t[i + 1][2])

\* The models of at most k nodes fit can return on n (a shape) and yv (the
\* labels of its rows): fit raises on a dataset without rows; otherwise every
\* training row falls in one leaf, every leaf holds a training row, a node is
\* split only when its rows carry two labels or more, and it is split on a
\* column of n.
FitResultsUpTo(k, n, yv, rs) ==
    IF Len(yv) = 0 THEN {FitError}
    ELSE UNION {UNION {
           LET rowsIn(ap, i) == {j \in DOMAIN ap : ap[j] \in LeavesBelow(t, i)}
           IN {Model([i \in DOMAIN t |-> t[i][1]],
                     [i \in DOMAIN t |-> t[i][2]],
                     f,
                     [i \in DOMAIN t |-> Cardinality(rowsIn(a, i - 1))],
                     a, rs) :
                 f \in {g \in [DOMAIN t -> (0..(n.cols - 1)) \cup {-2}] :
                          \A i \in DOMAIN t :
                              (g[i] = -2) <=> IsLeafOf(t, i - 1)}} :
           a \in {b \in [DOMAIN yv -> LeavesOf(t)] :
                    /\ \A x \in LeavesOf(t) : \E j \in DOMAIN b : b[j] = x
                    /\ \A i \in 0..(Len(t) - 1) :
                          ~IsLeafOf(t, i) =>
                              Cardinality({yv[j] : j \in
                                  {q \in DOMAIN b : b[q] \in LeavesBelow(t, i)}})
                                  >= 2}} :
           t \in UNION {PreorderTrees(m) : m \in 1..k}}

FitResults(n, yv, rs) == FitResultsUpTo(MaxNodes, n, yv, rs)

\* The model with its node ids renamed by p (p[i + 1] is the new id of node
\* i; the root keeps id 0): a tree built in another order than depth-first.
Renumber(model, p) ==
    LET old(j) == CHOOSE i \in DOMAIN p : p[i] = j - 1
        id(c) == IF c = -1 THEN -1 ELSE p[c + 1]
    IN Model([j \in DOMAIN p |-> id(model.children_left[old(j)])],
             [j \in DOMAIN p |-> id(model.children_right[old(j)])],
             [j \in DOMAIN p |-> model.feature[old(j)]],
             [j \in DOMAIN p |-> model.n_node_samples[old(j)]],
             [j \in DOMAIN model.apply |-> p[model.apply[j] + 1]],
             model.random_state)

\* the renamings of k node ids that keep the root's
Renamings(k) ==
    {p \in [1..k -> 0..(k - 1)] :
        /\ p[1] = 0
        /\ \A i, j \in 1..k : p[i] = p[j] => i = j}

-----------------------------------------------------------------------------
(* Developer sample group: src/pymfe/dev.py *)
\* dev.py uses np without importing numpy; the routines are modelled as they
\* read, with np bound to numpy.

precompute_foa_method(x, foo, bar, kw) ==
    LET bar_vals == IF ~IsNone(bar) /\ "absolute_bar" \notin DOMAIN kw
                    THEN "absolute_bar" :> Abs(Val(bar))
                    ELSE EmptyDict
        foo_vals == IF ~IsNone(foo) /\ "foo_unique" \notin DOMAIN kw
                    THEN "foo_unique" :> Unique(Val(foo))
                    ELSE EmptyDict
    IN Returns(bar_vals @@ foo_vals)

\* Declared without @classmethod; modelled as called with cls bound.
precompute_baz_qux(kw) == Returns(EmptyDict)

-----------------------------------------------------------------------------
(* The precomputation pass of one extraction call.  The engine that drives   *)
(* it is not among the sources; it follows its specification: every          *)
(* precomputation routine of every resolved group is invoked once, in no     *)
(* defined order, with the pool accumulated so far, and what it returns is   *)
(* merged into the pool, a key already present keeping its value.            *)

Groups == {"general", "model-based", "boilerplate"}

PrecompRoutines ==
    {"general_class", "model_based_class", "foa_method", "baz_qux"}

\* the precompute_ routines of each group's class
RoutinesOf(g) ==
    CASE g = "general" -> {"general_class"}
      [] g = "model-based" -> {"model_based_class"}
      [] g = "boilerplate" -> {"foa_method", "baz_qux"}

PoolKeys ==
    {"classes", "class_freqs", "model", "table", "tree_depth",
     "absolute_bar", "foo_unique"}

\* merging a returned dictionary into the pool: an existing key wins
Merge(p, d) ==
    [k \in DOMAIN p \cup DOMAIN d |-> IF k \in DOMAIN p THEN p[k] ELSE d[k]]

\* the call of routine r with the auto-supplied context and the pool kw
Invoke(r, kw) ==
    CASE r = "general_class" -> precompute_general_class(y, kw)
      [] r = "model_based_class" ->
             precompute_model_based_class(N, y, random_state, kw, fitted)
      [] r = "foa_method" ->
             precompute_foa_method(X, argument_foo, argument_bar, kw)
      [] r = "baz_qux" -> precompute_baz_qux(kw)

Precompute(r) ==
    /\ phase = "precompute"
    /\ \E g \in Range(resolved) : r \in RoutinesOf(g)
    /\ called[r] = 0
    /\ LET out == Invoke(r, pool)
       IN /\ routine' = r
          /\ kwargs' = pool
          /\ returned' = out.vals
          /\ pool' = Merge(pool, out.vals)
          /\ fits' = fits + out.fits
    /\ called' = [called EXCEPT ![r] = @ + 1]
    /\ UNCHANGED <<genVars, ctxVars, phase, resolved, resVars, ftVars>>

-----------------------------------------------------------------------------
(* Claims about the precomputation routines *)

AllCalled == \A r \in PrecompRoutines : called[r] = 1

\* C1: whatever the pool a precomputation routine receives as kwargs holds
\* (nothing, all of the routine's keys, some of them), no key of the
\* dictionary it returns is already in that pool.
C1_ReturnsNoExistingKey == DOMAIN returned \cap DOMAIN kwargs = {}

\* the pool after the routines ran in the given order from pool p
RECURSIVE RunInOrder(_, _)
RunInOrder(order, p) ==
    IF order = << >> THEN p
    ELSE RunInOrder(Tail(order), Merge(p, Invoke(Head(order), p).vals))

\* C2: for a fixed context and a fixed initial pool, the pool after all
\* precomputation routines ran is the same in whatever order they ran: it
\* is the pool that running them in the order general_class,
\* model_based_class, foa_method, baz_qux gives.
C2_OrderIndependent ==
    AllCalled =>
        pool = RunInOrder(<<"general_class", "model_based_class",
                            "foa_method", "baz_qux">>, pool0)

\* C2 witness: all routines ran, general_class last, and the pool gained
\* the values of general_class and of model_based_class.
C2_Witness ==
    /\ AllCalled
    /\ routine = "general_class"
    /\ {"classes", "model"} \subseteq DOMAIN pool \ DOMAIN pool0

-----------------------------------------------------------------------------
(* The extraction engine.  Its code (the registry of groups, the dependency  *)
(* resolver, the generic invoker) is not among the sources; the operators    *)
(* of this section follow its specification.  The feature routines it calls, *)
(* their parameters and their defaults are those of the sources.             *)

\* The closure of the groups in todo under the prerequisite map pre, as a
\* list without repetition; out holds the groups resolved so far.
RECURSIVE ResolveFrom(_, _, _)
ResolveFrom(todo, out, pre) ==
    IF todo = {} THEN out
    ELSE LET g == CHOOSE x \in todo : TRUE
         IN ResolveFrom((todo \cup pre[g]) \ (Range(out) \cup {g}),
                        Append(out, g), pre)

\* the requested groups and their direct prerequisites only
ResolveGroups_one_level(requested, pre) ==
    SetToSeq(requested \cup UNION {pre[g] : g \in requested})

ResolveGroups(requested, pre) == ResolveFrom(requested, << >>, pre)

\* the ft_ routines of each group's class, in the order of the class
FtsOf(g) ==
    CASE g = "general" ->
             <<"attr_to_inst", "cat_to_num", "freq_class", "inst_to_attr",
               "nr_attr", "nr_bin", "nr_cat", "nr_class", "nr_inst", "nr_num",
               "num_to_cat">>
      [] g = "model-based" ->
             <<"leaves", "tree_depth", "leaves_branch", "leaves_corrob",
               "tree_shape", "leaves_homo", "leaves_per_class", "nodes",
               "nodes_per_attr", "nodes_per_inst", "nodes_per_level",
               "nodes_repeated", "var_importance", "tree_imbalance">>
      [] g = "boilerplate" ->
             <<"foo", "about_data_arguments", "about_return_values">>

Features == UNION {Range(FtsOf(g)) : g \in Groups}

\* the declared parameters of each ft_ routine
ParamsOf(f) ==
    CASE f \in {"attr_to_inst", "inst_to_attr", "nr_attr", "nr_bin",
                "nr_inst"} -> {"X"}
      [] f \in {"cat_to_num", "nr_num", "num_to_cat"} -> {"X", "cat_cols"}
      [] f = "freq_class" -> {"y", "class_freqs"}
      [] f = "nr_cat" -> {"cat_cols"}
      [] f = "nr_class" -> {"y", "classes"}
      [] f \in {"leaves", "leaves_per_class", "nodes", "nodes_repeated"} ->
             {"table"}
      [] f = "tree_depth" -> {"tree_depth"}
      [] f \in {"leaves_branch", "tree_shape", "leaves_homo",
                "nodes_per_level", "tree_imbalance"} -> {"table", "tree_depth"}
      [] f \in {"leaves_corrob", "nodes_per_attr", "nodes_per_inst"} ->
             {"N", "table"}
      [] f = "var_importance" -> {"model"}
      [] f = "foo" -> {"X", "y", "opt_arg_foo", "opt_arg_bar", "opt_arg_baz",
                       "random_state"}
      [] f = "about_data_arguments" -> {"X", "N", "C"}
      [] f = "about_return_values" -> {"y"}

\* the default values of the parameters that have one
DefaultsOf(f) ==
    CASE f = "freq_class" -> "class_freqs" :> None
      [] f = "nr_class" -> ("y" :> None) @@ ("classes" :> None)
      [] f = "foo" -> ("opt_arg_foo" :> Some(TRUE)) @@ ("opt_arg_bar" :> Some(1))
                      @@ ("opt_arg_baz" :> None) @@ ("random_state" :> None)
      [] OTHER -> EmptyDict

\* A routine's result when only its kind matters: a value, or an exception.
Value == [kind |-> "value", num |-> 0, den |-> 0]
Raise == [kind |-> "raise", num |-> 0, den |-> 0]

\* The seeds of the pseudo-random generators.  A generator given the seed
\* None seeds itself from the operating system's entropy, which is modelled
\* as a seed that differs from call to call.
Seeds == 0..MaxSeed

\* np.random.seed(rs) followed by np.random.randint(10, size=1)
np_random_randint(rs, entropy) ==
    np_random[IF IsNone(rs) THEN entropy ELSE Val(rs)]

\* DecisionTreeClassifier(random_state=rs).fit(N, y)
DecisionTreeClassifier_fit(rs, entropy) ==
    sklearn_fit[IF IsNone(rs) THEN entropy ELSE Val(rs)]

\* The value ft_foo computes from its draw; opt_arg_baz[random_ind] raises
\* IndexError for an index past the end of opt_arg_baz.
foo_value(x, opt_arg_bar, baz, random_ind) ==
    IF random_ind >= Len(baz) THEN Raise
    ELSE Array(<<NpDiv(x.rows * opt_arg_bar, x.cols + baz[random_ind + 1])>>)

\* ft_foo without the check of opt_arg_bar
ft_foo_unchecked(x, yv, opt_arg_foo, opt_arg_bar, opt_arg_baz, rs, entropy) ==
    IF IsNone(opt_arg_baz) THEN Raise
    ELSE foo_value(x, opt_arg_bar, Val(opt_arg_baz),
                   np_random_randint(rs, entropy))

\* ft_foo drawing without seeding the generator from random_state
ft_foo_unseeded(x, yv, opt_arg_foo, opt_arg_bar, opt_arg_baz, rs, entropy) ==
    IF opt_arg_bar < 0 THEN Raise
    ELSE IF IsNone(opt_arg_baz) THEN Raise
    ELSE foo_value(x, opt_arg_bar, Val(opt_arg_baz),
                   np_random_randint(None, entropy))

\* ft_foo of the sample group: ValueError for a negative opt_arg_bar; with
\* opt_arg_baz None it calls np.random.choose, which numpy.random does not
\* have (AttributeError); otherwise it seeds the generator with random_state,
\* draws an index and computes a number from the entry of opt_arg_baz there.
\* entropy is what the generator is seeded from when random_state is None.
ft_foo(x, yv, opt_arg_foo, opt_arg_bar, opt_arg_baz, rs, entropy) ==
    IF opt_arg_bar < 0 THEN Raise
    ELSE IF IsNone(opt_arg_baz) THEN Raise
    ELSE foo_value(x, opt_arg_bar, Val(opt_arg_baz),
                   np_random_randint(rs, entropy))

\* The call of routine f with the resolved arguments: what it returns (result)
\* and how many times it calls DecisionTreeClassifier.fit (fits).
FtCall(f, args) ==
    CASE f = "attr_to_inst" ->
             [result |-> ft_attr_to_inst(Val(args["X"])), fits |-> 0]
      [] f = "inst_to_attr" ->
             [result |-> ft_inst_to_attr(Val(args["X"])), fits |-> 0]
      [] f = "cat_to_num" ->
             [result |-> ft_cat_to_num(Val(args["X"]), Val(args["cat_cols"])),
              fits |-> 0]
      [] f = "num_to_cat" ->
             [result |-> ft_num_to_cat(Val(args["X"]), Val(args["cat_cols"])),
              fits |-> 0]
      [] f = "foo" ->
             [result |-> ft_foo(Val(args["X"]), Val(args["y"]),
                                Val(args["opt_arg_foo"]),
                                Val(args["opt_arg_bar"]), args["opt_arg_baz"],
                                args["random_state"], runs[1].entropy),
              fits |-> 0]
      [] OTHER -> [result |-> Value, fits |-> 0]

\* the auto-supplied arguments: what the fitted data gives
AutoArgs ==
    ("X" :> X) @@ ("cat_cols" :> cat_cols)
    @@ ("C" :> [rows |-> X.rows, cols |-> Len(cat_cols)])
    @@ (IF IsNone(y) THEN EmptyDict ELSE "y" :> Val(y))
    @@ (IF IsNone(N) THEN EmptyDict ELSE "N" :> Val(N))
    @@ (IF IsNone(random_state) THEN EmptyDict
        ELSE "random_state" :> Val(random_state))

\* ArgFor taking the routine's default before the pool's value
ArgFor_default_first(f, p) ==
    IF p \in DOMAIN user THEN Some(user[p])
    ELSE IF p \in DOMAIN DefaultsOf(f) THEN DefaultsOf(f)[p]
    ELSE IF p \in DOMAIN pool THEN Some(pool[p])
    ELSE Some(AutoArgs[p])

\* The argument for parameter p of routine f: the user's override, else the
\* pool's value, else the auto-supplied value, else the routine's default.
ArgFor(f, p) ==
    IF p \in DOMAIN user THEN Some(user[p])
    ELSE IF p \in DOMAIN pool THEN Some(pool[p])
    ELSE IF p \in DOMAIN AutoArgs THEN Some(AutoArgs[p])
    ELSE DefaultsOf(f)[p]

Resolvable(f) ==
    \A p \in ParamsOf(f) :
        p \in DOMAIN user \cup DOMAIN pool \cup DOMAIN AutoArgs
              \cup DOMAIN DefaultsOf(f)

\* the features of the resolved groups, in the order they are extracted
RECURSIVE QueueOf(_)
QueueOf(gs) ==
    IF gs = << >> THEN << >> ELSE FtsOf(Head(gs)) \o QueueOf(Tail(gs))

Resolve ==
    /\ phase = "resolve"
    /\ resolved' = ResolveGroups(groups, GROUP_PREREQUISITES)
    /\ phase' = "precompute"
    /\ UNCHANGED <<genVars, ctxVars, pool, called, routine, kwargs, returned,
                   fits, resVars, ftVars>>

\* StartExtraction not waiting for the precomputation routines
StartExtraction_early ==
    /\ phase = "precompute"
    /\ phase' = "extract"
    /\ queue' = QueueOf(resolved)
    /\ ftState' = [f \in Features |->
                      IF f \in Range(QueueOf(resolved)) THEN "REQUESTED"
                      ELSE "NOT_REQUESTED"]
    /\ UNCHANGED <<genVars, ctxVars, pool, called, routine, kwargs, returned,
                   fits, resolved, resVars, user, ftArgs, attempts>>

\* the precomputation pass is over when every routine of every resolved group
\* has been invoked
StartExtraction ==
    /\ phase = "precompute"
    /\ \A g \in Range(resolved) : \A r \in RoutinesOf(g) : called[r] = 1
    /\ phase' = "extract"
    /\ queue' = QueueOf(resolved)
    /\ ftState' = [f \in Features |->
                      IF f \in Range(QueueOf(resolved)) THEN "REQUESTED"
                      ELSE "NOT_REQUESTED"]
    /\ UNCHANGED <<genVars, ctxVars, pool, called, routine, kwargs, returned,
                   fits, resolved, resVars, user, ftArgs, attempts>>

\* the feature being extracted
Current == Head(queue)

ResolveParams ==
    /\ phase = "extract"
    /\ queue # << >>
    /\ ftState[Current] = "REQUESTED"
    /\ attempts' = [attempts EXCEPT ![Current] = @ + 1]
    /\ IF Resolvable(Current)
       THEN /\ ftArgs' = [ftArgs EXCEPT ![Current] =
                             [p \in ParamsOf(Current) |-> ArgFor(Current, p)]]
            /\ ftState' = [ftState EXCEPT ![Current] = "PARAM_RESOLVED"]
            /\ UNCHANGED queue
       ELSE /\ ftState' = [ftState EXCEPT ![Current] = "FAILED"]
            /\ queue' = Tail(queue)
            /\ UNCHANGED ftArgs
    /\ UNCHANGED <<genVars, ctxVars, preVars, resVars, user>>

InvokeFt ==
    /\ phase = "extract"
    /\ queue # << >>
    /\ ftState[Current] = "PARAM_RESOLVED"
    /\ ftState' = [ftState EXCEPT ![Current] = "INVOKED"]
    /\ fits' = fits + FtCall(Current, ftArgs[Current]).fits
    /\ UNCHANGED <<genVars, ctxVars, pool, called, routine, kwargs, returned,
                   phase, resolved, resVars, user, queue, ftArgs, attempts>>

\* a routine that raises fails its own feature; extraction goes on
CompleteFt ==
    /\ phase = "extract"
    /\ queue # << >>
    /\ ftState[Current] = "INVOKED"
    /\ ftState' = [ftState EXCEPT ![Current] =
                      IF FtCall(Current, ftArgs[Current]).result.kind = "raise"
                      THEN "FAILED" ELSE "SUCCEEDED"]
    /\ queue' = Tail(queue)
    /\ UNCHANGED <<genVars, ctxVars, preVars, resVars, user, ftArgs, attempts>>

Finish ==
    /\ phase = "extract"
    /\ queue = << >>
    /\ phase' = "done"
    /\ UNCHANGED <<genVars, ctxVars, pool, called, routine, kwargs, returned,
                   fits, resolved, resVars, ftVars>>

\* values of the generators' variables in a specification without draws
RngIdle ==
    /\ sklearn_fit = [s \in Seeds |-> FitError]
    /\ np_random = [s \in Seeds |-> 0]
    /\ runs = [i \in 1..2 |-> [entropy |-> 0, pool |-> EmptyDict,
                               foo |-> NotCalled, step |-> "idle"]]

\* values of the engine's variables in a specification that does not use them
ResIdle ==
    /\ groups = {}
    /\ GROUP_PREREQUISITES = [g \in Groups |-> {}]
    /\ reresolved = None

FtIdle ==
    /\ user = EmptyDict
    /\ queue = << >>
    /\ ftState = [f \in Features |-> "NOT_REQUESTED"]
    /\ ftArgs = [f \in Features |-> EmptyDict]
    /\ attempts = [f \in Features |-> 0]

\* Values of the pool's keys that were put there before the pass (by the
\* caller, or by a group outside this model).
Given(k) ==
    CASE k = "classes" -> <<9>>
      [] k = "class_freqs" -> <<9>>
      [] k = "model" ->
             Model(<<-1>>, <<-1>>, <<-2>>, <<9>>, <<0>>, Some(9))
      [] k = "table" -> << <<-2, 1, 9, 9>> >>
      [] k = "tree_depth" -> <<9>>
      [] k = "absolute_bar" -> 9
      [] k = "foo_unique" -> <<9>>

Labels == 0..1

\* the sequences over S of length at most n
SeqsUpTo(S, n) == UNION {[1..k -> S] : k \in 0..n}

\* values of the variables a specification does not use
GenIdle ==
    /\ cat_cols = << >>
    /\ ret = [f \in GeneralFts |-> NotCalled]

CtxIdle ==
    /\ y = None
    /\ N = None
    /\ random_state = None
    /\ argument_foo = None
    /\ argument_bar = None
    /\ fitted = FitError
    /\ pool0 = EmptyDict
    /\ RngIdle

PreIdle ==
    /\ pool = EmptyDict
    /\ called = [r \in PrecompRoutines |-> 0]
    /\ routine = "none"
    /\ kwargs = EmptyDict
    /\ returned = EmptyDict
    /\ fits = 0
    /\ phase = "idle"
    /\ resolved = << >>

\* the fitted dataset and the seed of one call
CtxInit ==
    /\ y \in {None} \cup {Some(s) : s \in SeqsUpTo(Labels, MaxY)}
    /\ \E rows \in (IF IsNone(y) THEN {1} ELSE {Len(Val(y))}) :
          /\ X = [rows |-> rows, cols |-> 1]
          /\ N \in {None, Some(X)}
    /\ random_state = Some(0)
    /\ argument_foo \in {None, Some(<<1, 0, 1>>)}
    /\ argument_bar \in {None, Some(-2)}
    /\ fitted \in (IF IsNone(y) \/ IsNone(N) THEN {FitError}
                   ELSE FitResults(Val(N), Val(y), random_state))
    /\ RngIdle

PreInit ==
    /\ CtxInit
    /\ GenIdle
    /\ pool0 \in {[k \in K |-> Given(k)] : K \in SUBSET PoolKeys}
    /\ pool = pool0
    /\ called = [r \in PrecompRoutines |-> 0]
    /\ routine = "none"
    /\ kwargs = EmptyDict
    /\ returned = EmptyDict
    /\ fits = 0
    /\ phase = "precompute"
    /\ resolved = <<"general", "model-based", "boilerplate">>
    /\ ResIdle
    /\ FtIdle

PreNext == \E r \in PrecompRoutines : Precompute(r)

SpecPrecomp == PreInit /\ [][PreNext]_vars

\* what the user may override: a negative opt_arg_bar, an opt_arg_baz, and
\* the pool's key classes
UserChoices ==
    ("opt_arg_bar" :> -1) @@ ("opt_arg_baz" :> [i \in 1..10 |-> i])
    @@ ("classes" :> <<7, 8>>)

\* the prerequisites registered for the groups: none, or a chain
PrereqChoices ==
    {[g \in Groups |-> {}],
     [g \in Groups |-> IF g = "boilerplate" THEN {"model-based"}
                       ELSE IF g = "model-based" THEN {"general"} ELSE {}]}

EngInit ==
    /\ y \in {None, Some(<<0, 1>>)}
    /\ X = [rows |-> 2, cols |-> 1]
    /\ cat_cols = << >>
    /\ ret = [f \in GeneralFts |-> NotCalled]
    /\ N \in {None, Some(X)}
    /\ random_state = Some(0)
    /\ argument_foo = Some(<<1, 0, 1>>)
    /\ argument_bar = Some(-2)
    /\ fitted \in (IF IsNone(y) \/ IsNone(N) THEN {FitError}
                   ELSE FitResults(Val(N), Val(y), random_state))
    /\ pool0 \in {EmptyDict,
                  [k \in {"model", "table", "tree_depth"} |-> Given(k)]}
    /\ RngIdle
    /\ pool = pool0
    /\ called = [r \in PrecompRoutines |-> 0]
    /\ routine = "none"
    /\ kwargs = EmptyDict
    /\ returned = EmptyDict
    /\ fits = 0
    /\ phase = "resolve"
    /\ resolved = << >>
    /\ groups \in SUBSET Groups \ {{}}
    /\ GROUP_PREREQUISITES \in PrereqChoices
    /\ reresolved = None
    /\ user \in {[p \in K |-> UserChoices[p]] : K \in SUBSET DOMAIN UserChoices}
    /\ queue = << >>
    /\ ftState = [f \in Features |-> "NOT_REQUESTED"]
    /\ ftArgs = [f \in Features |-> EmptyDict]
    /\ attempts = [f \in Features |-> 0]

EngNext ==
    \/ Resolve
    \/ \E r \in PrecompRoutines : Precompute(r)
    \/ StartExtraction
    \/ ResolveParams
    \/ InvokeFt
    \/ CompleteFt
    \/ Finish

SpecExtract == EngInit /\ [][EngNext]_vars

\* the resolver applied to its own output
ResolveAgain ==
    /\ phase = "precompute"
    /\ IsNone(reresolved)
    /\ reresolved' = Some(ResolveGroups(Range(resolved), GROUP_PREREQUISITES))
    /\ UNCHANGED <<genVars, ctxVars, preVars, groups, GROUP_PREREQUISITES,
                   ftVars>>

\* every request and every registration of prerequisites (none, one group,
\* several groups; itself and cycles included)
ResInit ==
    /\ groups \in SUBSET Groups
    /\ GROUP_PREREQUISITES \in [Groups -> SUBSET Groups]
    /\ reresolved = None
    /\ X = [rows |-> 0, cols |-> 0]
    /\ GenIdle
    /\ CtxIdle
    /\ pool = EmptyDict
    /\ called = [r \in PrecompRoutines |-> 0]
    /\ routine = "none"
    /\ kwargs = EmptyDict
    /\ returned = EmptyDict
    /\ fits = 0
    /\ phase = "resolve"
    /\ resolved = << >>
    /\ FtIdle

ResNext == Resolve \/ ResolveAgain

SpecResolve == ResInit /\ [][ResNext]_vars

-----------------------------------------------------------------------------
(* Claims about the engine *)

ModelKeys == {"model", "table", "tree_depth"}

Requested == Range(QueueOf(resolved))

Terminal == {"SUCCEEDED", "FAILED"}

\* C3: in one extraction call the decision tree is fitted at most once: only
\* by precompute_model_based_class, and not when N or y is None or when
\* model, table and tree_depth are all in the pool already; no ft_ routine
\* fits a model, however many features are extracted.
C3_FitAtMostOnce ==
    /\ fits <= 1
    /\ fits = IF /\ called["model_based_class"] = 1
                 /\ ~IsNone(N)
                 /\ ~IsNone(y)
                 /\ ~(ModelKeys \subseteq DOMAIN pool0)
              THEN 1 ELSE 0

\* C3 witness: a call that extracted the model-based features has ended with
\* one fit.
C3_Witness ==
    /\ phase = "done"
    /\ fits = 1
    /\ \A f \in Range(FtsOf("model-based")) : ftState[f] = "SUCCEEDED"

\* the precomputation routines of the resolved groups
ResolvedRoutines == UNION {RoutinesOf(g) : g \in Range(resolved)}

\* C4: every precomputation routine of every resolved group is invoked
\* exactly once (and no other routine is invoked), and all these invocations
\* are over before the first ft_ routine is dealt with, so that the pool the
\* ft_ routines see is the final one.
C4_PrecomputeOnceBeforeFeatures ==
    /\ \A r \in PrecompRoutines :
          /\ called[r] <= 1
          /\ called[r] = 1 => r \in ResolvedRoutines
    /\ phase \in {"extract", "done"} =>
          /\ \A r \in ResolvedRoutines : called[r] = 1
          /\ pool = RunInOrder(SetToSeq(ResolvedRoutines), pool0)
    /\ (\E f \in Features : ftState[f] # "NOT_REQUESTED") =>
          phase \in {"extract", "done"}

\* C4 witness: a call with two resolved groups is extracting features, their
\* routines having run.
C4_Witness ==
    /\ phase = "extract"
    /\ Len(resolved) = 2
    /\ called["general_class"] = 1
    /\ called["model_based_class"] = 1
    /\ \E f \in Features : ftState[f] = "INVOKED"

\* C5: every requested feature is attempted exactly once and ends SUCCEEDED
\* or FAILED; a feature fails only for a parameter of its own that cannot be
\* resolved or because its own routine raises (as ft_foo does for a negative
\* opt_arg_bar), and the call goes on to the other features until all are
\* done.
C5_EachFeatureOnceFailureIsolated ==
    /\ \A f \in Features : attempts[f] <= 1
    /\ phase = "done" =>
          \A f \in Requested : ftState[f] \in Terminal /\ attempts[f] = 1
    /\ phase # "done" => ENABLED EngNext
    /\ \A f \in Features :
          /\ ftState[f] = "FAILED" =>
                IF ftArgs[f] = EmptyDict THEN ~Resolvable(f)
                ELSE FtCall(f, ftArgs[f]).result.kind = "raise"
          /\ ftState[f] = "SUCCEEDED" =>
                FtCall(f, ftArgs[f]).result.kind # "raise"
    /\ (/\ ftState["foo"] \in Terminal
        /\ ftArgs["foo"] # EmptyDict
        /\ Val(ftArgs["foo"]["opt_arg_bar"]) < 0) => ftState["foo"] = "FAILED"

\* C5 witness: the call has ended; ft_foo was given a negative opt_arg_bar
\* (and an opt_arg_baz) and FAILED, a model-based feature FAILED for want of
\* its table, and the features after them SUCCEEDED.
C5_Witness ==
    /\ phase = "done"
    /\ ftState["foo"] = "FAILED"
    /\ ftArgs["foo"] # EmptyDict
    /\ Val(ftArgs["foo"]["opt_arg_bar"]) < 0
    /\ ~IsNone(ftArgs["foo"]["opt_arg_baz"])
    /\ ftState["leaves"] = "FAILED"
    /\ ftArgs["leaves"] = EmptyDict
    /\ ftState["about_return_values"] = "SUCCEEDED"
    /\ ftState["num_to_cat"] = "SUCCEEDED"

\* the shared pool as an ft_ routine is offered it: the auto-supplied
\* arguments and the precomputed values
Supplied == pool @@ AutoArgs

\* C6: each declared parameter of an invoked ft_ routine got the user's
\* override if there is one for its name, otherwise the shared pool's value
\* if the pool has the key, otherwise the routine's own default.
C6_ArgumentPrecedence ==
    \A f \in Features :
        ftArgs[f] # EmptyDict =>
            \A p \in ParamsOf(f) :
                /\ p \in DOMAIN user => ftArgs[f][p] = Some(user[p])
                /\ (p \notin DOMAIN user /\ p \in DOMAIN Supplied) =>
                      ftArgs[f][p] = Some(Supplied[p])
                /\ (p \notin DOMAIN user /\ p \notin DOMAIN Supplied) =>
                      ftArgs[f][p] = DefaultsOf(f)[p]

\* C6 witness: ft_nr_class was given the user's classes though the pool has
\* the key, ft_freq_class the pool's class_freqs rather than its default, and
\* ft_foo its default opt_arg_baz.
C6_Witness ==
    /\ ftArgs["nr_class"] # EmptyDict
    /\ ftArgs["freq_class"] # EmptyDict
    /\ ftArgs["foo"] # EmptyDict
    /\ {"classes", "class_freqs"} \subseteq DOMAIN pool
    /\ "classes" \in DOMAIN user
    /\ ftArgs["nr_class"]["classes"] = Some(user["classes"])
    /\ user["classes"] # pool["classes"]
    /\ ftArgs["freq_class"]["class_freqs"] = Some(pool["class_freqs"])
    /\ ftArgs["foo"]["opt_arg_baz"] = None

NoDuplicates(s) == \A i, j \in DOMAIN s : s[i] = s[j] => i = j

\* C7: the resolver's output has no duplicates, contains the requested groups
\* and the prerequisites of each of its members, is just the requested
\* groups when these have no prerequisite, and is returned again when it is
\* resolved itself.
C7_ResolverClosureIdempotent ==
    /\ phase # "resolve" =>
          /\ NoDuplicates(resolved)
          /\ groups \subseteq Range(resolved)
          /\ \A g \in Range(resolved) :
                GROUP_PREREQUISITES[g] \subseteq Range(resolved)
          /\ (\A g \in groups : GROUP_PREREQUISITES[g] = {}) =>
                Range(resolved) = groups
    /\ ~IsNone(reresolved) =>
          /\ NoDuplicates(Val(reresolved))
          /\ Range(Val(reresolved)) = Range(resolved)

\* C7 witness: one requested group brought in a prerequisite and that
\* group's prerequisite, and the output was resolved again.
C7_Witness ==
    /\ Cardinality(groups) = 1
    /\ Len(resolved) = 3
    /\ \A g \in groups : Cardinality(GROUP_PREREQUISITES[g]) = 1
    /\ ~IsNone(reresolved)

-----------------------------------------------------------------------------
(* Calls of the General group's ratio routines on one fitted dataset *)

\* the datasets considered: every shape, every choice of categorical columns
Shapes == [rows : 0..MaxRows, cols : 0..MaxCols]
CatColsOf(x) == {SortedSeq(S) : S \in SUBSET (0..(x.cols - 1))}

GenInit ==
    /\ X \in Shapes
    /\ cat_cols \in CatColsOf(X)
    /\ ret = [f \in GeneralFts |-> NotCalled]
    /\ CtxIdle
    /\ PreIdle
    /\ ResIdle
    /\ FtIdle

Returned(f, v) ==
    /\ ret[f] = NotCalled
    /\ ret' = [ret EXCEPT ![f] = v]
    /\ UNCHANGED <<X, cat_cols, ctxVars, preVars, resVars, ftVars>>

Call_ft_attr_to_inst == Returned("attr_to_inst", ft_attr_to_inst(X))

Call_ft_inst_to_attr == Returned("inst_to_attr", ft_inst_to_attr(X))

Call_ft_cat_to_num == Returned("cat_to_num", ft_cat_to_num(X, cat_cols))

Call_ft_num_to_cat == Returned("num_to_cat", ft_num_to_cat(X, cat_cols))

GenNext ==
    \/ Call_ft_attr_to_inst
    \/ Call_ft_inst_to_attr
    \/ Call_ft_cat_to_num
    \/ Call_ft_num_to_cat

SpecGeneral == GenInit /\ [][GenNext]_vars

-----------------------------------------------------------------------------
(* Claims about the General group *)

One == Float(1, 1)

\* C8: for every dataset, ft_attr_to_inst(X) times ft_inst_to_attr(X) is 1
\* unless one of the two results is nan.
C8_InverseRatioIdentity ==
    LET a == ret["attr_to_inst"]
        b == ret["inst_to_attr"]
    IN (a # NotCalled /\ b # NotCalled /\ a # NaN /\ b # NaN) =>
           /\ IsNumber(a)
           /\ IsNumber(b)
           /\ Mul(a, b) = One

\* C9: ft_attr_to_inst on a dataset without rows and ft_inst_to_attr on a
\* dataset without columns return nan and do not raise.
C9_ZeroDenominatorGivesNaN ==
    /\ (X.rows = 0 /\ ret["attr_to_inst"] # NotCalled) =>
           ret["attr_to_inst"] = NaN
    /\ (X.cols = 0 /\ ret["inst_to_attr"] # NotCalled) =>
           ret["inst_to_attr"] = NaN

\* C10: ft_cat_to_num is nan exactly when there is no numeric column and
\* ft_num_to_cat is nan exactly when there is no categorical column; otherwise
\* each is the exact ratio of the two column counts; neither raises.
C10_CatNumRatios ==
    LET nCat == Len(cat_cols)
        nNum == X.cols - Len(cat_cols)
        c2n == ret["cat_to_num"]
        n2c == ret["num_to_cat"]
    IN /\ c2n # NotCalled =>
              /\ c2n.kind # "raise"
              /\ nNum = 0 => c2n = NaN
              /\ nNum # 0 => (c2n.kind = "num" /\ c2n.num * nNum = c2n.den * nCat)
       /\ n2c # NotCalled =>
              /\ n2c.kind # "raise"
              /\ nCat = 0 => n2c = NaN
              /\ nCat # 0 => (n2c.kind = "num" /\ n2c.num * nCat = n2c.den * nNum)

\* C10 witness: on a dataset with columns, all of them categorical, both
\* routines have returned: cat_to_num nan, num_to_cat a number.
C10_Witness ==
    /\ X.cols > 0
    /\ Len(cat_cols) = X.cols
    /\ ret["cat_to_num"] = NaN
    /\ ret["num_to_cat"].kind = "num"

\* C11: on a dataset without categorical columns (cat_cols empty)
\* ft_cat_to_num returns nan.
C11_NoCategoricalGivesNaN ==
    (cat_cols = << >> /\ ret["cat_to_num"] # NotCalled) =>
        ret["cat_to_num"] = NaN

-----------------------------------------------------------------------------
(* Calls of the General group's routines that work on the target vector *)

\* the argument for an optional parameter the pool may hold
FromPool(k) == IF k \in DOMAIN pool THEN Some(pool[k]) ELSE None

\* the pool: empty, as precompute_general_class fills it from y, or holding
\* values put there by the caller
LabInit ==
    /\ y \in {None} \cup {Some(v) : v \in SeqsUpTo(0..MaxClass, MaxLen)}
    /\ pool0 \in {EmptyDict,
                  precompute_general_class(y, EmptyDict).vals,
                  [k \in {"classes", "class_freqs"} |-> Given(k)]}
    /\ pool = pool0
    /\ X = [rows |-> 0, cols |-> 0]
    /\ cat_cols = << >>
    /\ ret = [f \in LabelFts |-> NotCalled]
    /\ N = None
    /\ random_state = None
    /\ argument_foo = None
    /\ argument_bar = None
    /\ fitted = FitError
    /\ RngIdle
    /\ called = [r \in PrecompRoutines |-> 0]
    /\ routine = "none"
    /\ kwargs = EmptyDict
    /\ returned = EmptyDict
    /\ fits = 0
    /\ phase = "idle"
    /\ resolved = << >>
    /\ ResIdle
    /\ FtIdle

\* y is a parameter without default: the routine is called only with a y
Call_ft_freq_class ==
    /\ ~IsNone(y)
    /\ Returned("freq_class", ft_freq_class(Val(y), FromPool("class_freqs")))

Call_ft_nr_class == Returned("nr_class", ft_nr_class(y, FromPool("classes")))

LabNext == Call_ft_freq_class \/ Call_ft_nr_class

SpecLabels == LabInit /\ [][LabNext]_vars

\* C12: for a non-empty y, with class_freqs absent or as
\* precompute_general_class computes it from y, ft_freq_class returns one
\* relative frequency per distinct class, and they sum to 1.
C12_FreqClassSumsToOne ==
    LET r == ret["freq_class"]
    IN (/\ r # NotCalled
        /\ Len(Val(y)) > 0
        /\ ("class_freqs" \in DOMAIN pool =>
                pool["class_freqs"] = UniqueCounts(Val(y)))) =>
           /\ r.kind = "array"
           /\ Len(r.items) = Cardinality(Range(Val(y)))
           /\ \A i \in DOMAIN r.items : IsNumber(r.items[i])
           /\ Sum(r.items) = One

\* C12 witness: ft_freq_class has returned for a y of three entries in two
\* classes, given the class_freqs computed from it.
C12_Witness ==
    /\ ~IsNone(y)
    /\ Len(Val(y)) = 3
    /\ Cardinality(Range(Val(y))) = 2
    /\ "class_freqs" \in DOMAIN pool
    /\ pool["class_freqs"] = UniqueCounts(Val(y))
    /\ ret["freq_class"] # NotCalled
    /\ Len(ret["freq_class"].items) = 2

\* C13: for an empty y ft_freq_class returns the array of one nan and does
\* not raise, with or without a class_freqs.
C13_FreqClassEmptyY ==
    (y = Some(<< >>) /\ ret["freq_class"] # NotCalled) =>
        ret["freq_class"] = Array(<<NaN>>)

\* C13 witness: ft_freq_class has returned for an empty y and a class_freqs
\* given by the caller.
C13_Witness ==
    /\ y = Some(<< >>)
    /\ "class_freqs" \in DOMAIN pool
    /\ pool["class_freqs"] # << >>
    /\ ret["freq_class"] = Array(<<NaN>>)

\* C14: ft_nr_class returns nan exactly when y and classes are both None;
\* given classes it returns the number of its entries, given only y the
\* number of distinct values of y, the same number when classes is what
\* precompute_general_class computes from y.
C14_NrClass ==
    LET r == ret["nr_class"]
        hasClasses == "classes" \in DOMAIN pool
    IN r # NotCalled =>
           /\ r = NaN <=> (IsNone(y) /\ ~hasClasses)
           /\ hasClasses => r = Float(Len(pool["classes"]), 1)
           /\ (~hasClasses /\ ~IsNone(y)) =>
                 r = Float(Cardinality(Range(Val(y))), 1)
           /\ (hasClasses /\ ~IsNone(y) /\ pool["classes"] = Unique(Val(y))) =>
                 r = ft_nr_class(y, None)

\* C14 witness: ft_nr_class has returned 1 for the classes given by the
\* caller, y holding two classes.
C14_Witness ==
    /\ ~IsNone(y)
    /\ Cardinality(Range(Val(y))) = 2
    /\ "classes" \in DOMAIN pool
    /\ Len(pool["classes"]) = 1
    /\ ret["nr_class"] = Float(1, 1)

-----------------------------------------------------------------------------
(* Calls of the Model-Based group's routines on the table of a fitted tree *)

\* a dataset of two columns with labelled rows, and a tree fit builds on it
TabInit ==
    /\ y \in {Some(v) : v \in SeqsUpTo(0..MaxClass, MaxLen) \ {<< >>}}
    /\ X = [rows |-> Len(Val(y)), cols |-> 2]
    /\ N = Some(X)
    /\ random_state = Some(0)
    /\ fitted \in FitResultsUpTo(MaxTreeNodes, X, Val(y), random_state)
    /\ cat_cols = << >>
    /\ ret = [f \in TreeFts |-> NotCalled]
    /\ argument_foo = None
    /\ argument_bar = None
    /\ pool0 = EmptyDict
    /\ pool = pool0
    /\ RngIdle
    /\ called = [r \in PrecompRoutines |-> 0]
    /\ routine = "none"
    /\ kwargs = EmptyDict
    /\ returned = EmptyDict
    /\ fits = 0
    /\ phase = "precompute"
    /\ resolved = <<"model-based">>
    /\ ResIdle
    /\ FtIdle

\* a table parameter has no default: the routine is called once the pool
\* holds the table
HasTable == "table" \in DOMAIN pool

Call_ft_leaves ==
    /\ HasTable
    /\ Returned("leaves", Float(ft_leaves(pool["table"]), 1))

Call_ft_leaves_per_class ==
    /\ HasTable
    /\ Returned("leaves_per_class", ft_leaves_per_class(pool["table"]))

Call_ft_nodes ==
    /\ HasTable
    /\ Returned("nodes", Float(ft_nodes(pool["table"]), 1))

Call_ft_nodes_repeated ==
    /\ HasTable
    /\ Returned("nodes_repeated", ft_nodes_repeated(pool["table"]))

Call_ft_leaves_branch ==
    /\ HasTable
    /\ "tree_depth" \in DOMAIN pool
    /\ Returned("leaves_branch",
                ft_leaves_branch(pool["table"], pool["tree_depth"]))

TabNext ==
    \/ Precompute("model_based_class")
    \/ Call_ft_leaves
    \/ Call_ft_leaves_per_class
    \/ Call_ft_nodes
    \/ Call_ft_nodes_repeated
    \/ Call_ft_leaves_branch

SpecTable == TabInit /\ [][TabNext]_vars

\* the nodes of the fitted tree, its leaves, and the rows in a leaf
Nodes == 0..(node_count(fitted) - 1)
IsLeaf(i) ==
    fitted.children_left[i + 1] = -1 /\ fitted.children_right[i + 1] = -1
RowsIn(i) == {j \in DOMAIN fitted.apply : fitted.apply[j] = i}

\* the sum of a list of integers
RECURSIVE SumInts(_)
SumInts(a) == IF a = << >> THEN 0 ELSE Head(a) + SumInts(Tail(a))

\* C15: on the table of a fitted tree (of one node or more) the proportions
\* returned by ft_leaves_per_class sum to 1, and ft_leaves is the number of
\* rows whose column 1 is 1.
C15_LeavesPerClassSumToOne ==
    HasTable =>
        /\ ret["leaves_per_class"] # NotCalled =>
              /\ \A i \in DOMAIN ret["leaves_per_class"].items :
                    IsNumber(ret["leaves_per_class"].items[i])
              /\ Sum(ret["leaves_per_class"].items) = One
        /\ ret["leaves"] # NotCalled =>
              ret["leaves"] =
                  Float(Cardinality({i \in DOMAIN pool["table"] :
                                        pool["table"][i][2] = 1}), 1)

\* the classes most frequent among the rows in leaf i, as indices in the
\* sorted distinct labels
MostFrequent(i) ==
    LET inv == UniqueInverse(Val(y))
        count(c) == Cardinality({j \in RowsIn(i) : inv[j] = c})
    IN {c \in {inv[j] : j \in RowsIn(i)} :
           \A d \in {inv[j] : j \in RowsIn(i)} : count(d) <= count(c)}

\* C19: the table has one row per node; column 1 is 1 for the leaves and 0
\* for the other nodes; column 3 is 0 for a node that is not a leaf and, for
\* a leaf, the non-zero number (class index plus 2) of the class most
\* frequent among the training rows in the leaf.
C19_TableColumns ==
    HasTable =>
        LET table == pool["table"]
        IN /\ Len(table) = node_count(fitted)
           /\ \A i \in Nodes :
                 /\ table[i + 1][2] = (IF IsLeaf(i) THEN 1 ELSE 0)
                 /\ ~IsLeaf(i) => table[i + 1][4] = 0
                 /\ IsLeaf(i) =>
                       /\ table[i + 1][4] # 0
                       /\ \E c \in MostFrequent(i) : table[i + 1][4] = c + 2

\* the attribute ids of the internal nodes, in node order
SplitFeatures ==
    Masked(fitted.feature, [i \in DOMAIN fitted.feature |-> ~IsLeaf(i - 1)])

\* C20: ft_nodes_repeated returns one count per distinct attribute id some
\* internal node splits on, the number of internal nodes splitting on it;
\* the counts sum to the number of internal nodes, ft_nodes(table).
C20_NodesRepeated ==
    (HasTable /\ ret["nodes_repeated"] # NotCalled) =>
        LET counts == ret["nodes_repeated"].items
        IN /\ Len(counts) = Cardinality(Range(SplitFeatures))
           /\ counts = CounterValues(SplitFeatures)
           /\ SumInts(counts) = ft_nodes(pool["table"])

-----------------------------------------------------------------------------
(* tree_depth and extract_table called on a model whose node ids are in any  *)
(* order: as fit numbers them (a node, its left subtree, its right subtree) *)
(* or otherwise, as a tree grown best-first is numbered.                     *)

DepInit ==
    /\ y \in {Some(v) : v \in [1..MaxLen -> Labels]}
    /\ X = [rows |-> Len(Val(y)), cols |-> 1]
    /\ N = Some(X)
    /\ random_state = Some(0)
    /\ fitted \in UNION {{Renumber(m, p) : p \in Renamings(node_count(m))} :
                          m \in FitResultsUpTo(MaxTreeNodes, X, Val(y),
                                               random_state)}
    /\ cat_cols = << >>
    /\ ret = [f \in TreeFts |-> NotCalled]
    /\ argument_foo = None
    /\ argument_bar = None
    /\ pool0 = [k \in {"model"} |-> fitted]
    /\ pool = pool0
    /\ RngIdle
    /\ called = [r \in PrecompRoutines |-> 0]
    /\ routine = "none"
    /\ kwargs = EmptyDict
    /\ returned = EmptyDict
    /\ fits = 0
    /\ phase = "idle"
    /\ resolved = << >>
    /\ ResIdle
    /\ FtIdle

\* a direct call whose result is kept under key k
Kept(k, v) ==
    /\ k \notin DOMAIN pool
    /\ pool' = pool @@ (k :> v)
    /\ UNCHANGED <<genVars, ctxVars, called, routine, kwargs, returned, fits,
                   phase, resolved, resVars, ftVars>>

Call_tree_depth == Kept("tree_depth", tree_depth(pool["model"]))

Call_extract_table ==
    Kept("table", extract_table(Val(N), Val(y), pool["model"]))

Call_ft_tree_shape ==
    /\ HasTable
    /\ "tree_depth" \in DOMAIN pool
    /\ Returned("tree_shape",
                ft_tree_shape(pool["table"], pool["tree_depth"]))

Call_ft_tree_imbalance ==
    /\ HasTable
    /\ "tree_depth" \in DOMAIN pool
    /\ Returned("tree_imbalance",
                ft_tree_imbalance(pool["table"], pool["tree_depth"]))

DepNext ==
    \/ Call_tree_depth
    \/ Call_extract_table
    \/ Call_ft_leaves_branch
    \/ Call_ft_tree_shape
    \/ Call_ft_tree_imbalance

SpecDepth == DepInit /\ [][DepNext]_vars

\* the position of node i in the walk
WalkIndex(i) ==
    LET order == node_order(0, fitted.children_left, fitted.children_right)
    IN CHOOSE k \in DOMAIN order : order[k] = i

\* C16: in the depths computed by tree_depth the root has depth 0, both
\* children of every internal node have their parent's depth plus 1, and
\* every node met, leaves included, has a depth that is a natural number.
C16_DepthsFollowTree ==
    "tree_depth" \in DOMAIN pool =>
        LET depths == pool["tree_depth"]
            order == node_order(0, fitted.children_left,
                                fitted.children_right)
        IN /\ Len(depths) = Len(order)
           /\ order[1] = 0
           /\ depths[1] = 0
           /\ \A k \in DOMAIN depths : depths[k] \in Nat
           /\ \A i \in Nodes :
                 ~IsLeaf(i) =>
                     /\ depths[WalkIndex(fitted.children_left[i + 1])] =
                            depths[WalkIndex(i)] + 1
                     /\ depths[WalkIndex(fitted.children_right[i + 1])] =
                            depths[WalkIndex(i)] + 1

\* C16 witness: tree_depth has returned for a tree of five nodes numbered
\* as fit numbers them, whose deepest leaves are at depth 2.
C16_Witness ==
    /\ "tree_depth" \in DOMAIN pool
    /\ node_count(fitted) = 5
    /\ node_order(0, fitted.children_left, fitted.children_right)
           = <<0, 1, 2, 3, 4>>
    /\ \E k \in DOMAIN pool["tree_depth"] : pool["tree_depth"][k] = 2

\* the number of edges from the root to node i
RECURSIVE DepthOf(_)
DepthOf(i) ==
    IF i = 0 THEN 0
    ELSE LET parent == CHOOSE q \in Nodes :
                          \/ fitted.children_left[q + 1] = i
                          \/ fitted.children_right[q + 1] = i
         IN DepthOf(parent) + 1

-----------------------------------------------------------------------------
(* Two extraction runs on the same fitted data with the same random_state:   *)
(* each precomputes the Model-Based group's values and extracts ft_foo.      *)
(* What a generator gives for a seed is the same in both runs; what a        *)
(* generator seeded with None gives depends on the run's entropy.            *)

RunInit ==
    /\ y = Some(<<0, 1>>)
    /\ X = [rows |-> 2, cols |-> 1]
    /\ N = Some(X)
    /\ random_state \in {None} \cup {Some(sd) : sd \in Seeds}
    /\ sklearn_fit \in [Seeds -> FitResults(X, Val(y), random_state)]
    /\ np_random \in [Seeds -> {0, 9}]
    /\ runs \in [1..2 -> [entropy : Seeds, pool : {EmptyDict},
                          foo : {NotCalled}, step : {"start"}]]
    /\ user = [p \in {"opt_arg_baz"} |-> UserChoices[p]]
    /\ cat_cols = << >>
    /\ ret = [f \in GeneralFts |-> NotCalled]
    /\ argument_foo = None
    /\ argument_bar = None
    /\ fitted = FitError
    /\ pool0 = EmptyDict
    /\ PreIdle
    /\ ResIdle
    /\ queue = << >>
    /\ ftState = [f \in Features |-> "NOT_REQUESTED"]
    /\ ftArgs = [f \in Features |-> EmptyDict]
    /\ attempts = [f \in Features |-> 0]

\* the precomputation pass of run i: the tree is fitted with random_state
RunPrecompute(i) ==
    /\ runs[i].step = "start"
    /\ LET fit == DecisionTreeClassifier_fit(random_state, runs[i].entropy)
           out == precompute_model_based_class(N, y, random_state,
                                               runs[i].pool, fit)
       IN runs' = [runs EXCEPT ![i].pool = Merge(@, out.vals),
                               ![i].step = "precomputed"]
    /\ UNCHANGED <<genVars, y, N, random_state, argument_foo, argument_bar,
                   fitted, pool0, sklearn_fit, np_random, preVars, resVars,
                   ftVars>>

\* the extraction of ft_foo in run i, with the user's opt_arg_baz
RunFoo(i) ==
    /\ runs[i].step = "precomputed"
    /\ runs' = [runs EXCEPT
                   ![i].foo = ft_foo(X, Val(y), TRUE, 1,
                                     Some(user["opt_arg_baz"]), random_state,
                                     runs[i].entropy),
                   ![i].step = "done"]
    /\ UNCHANGED <<genVars, y, N, random_state, argument_foo, argument_bar,
                   fitted, pool0, sklearn_fit, np_random, preVars, resVars,
                   ftVars>>

RunNext == \E i \in 1..2 : RunPrecompute(i) \/ RunFoo(i)

SpecRuns == RunInit /\ [][RunNext]_vars

\* C18: two runs on the same X, y, N with the same integer random_state end
\* with the same pool and the same value of ft_foo: the tree fit and the
\* draws of ft_foo are seeded from random_state alone.
C18_SameSeedSameResult ==
    ~IsNone(random_state) =>
        /\ (runs[1].step # "start" /\ runs[2].step # "start") =>
              runs[1].pool = runs[2].pool
        /\ (runs[1].step = "done" /\ runs[2].step = "done") =>
              runs[1].foo = runs[2].foo

\* C18 witness: both runs are over with an integer random_state, a fitted
\* model in the pool and a value of ft_foo, their entropies differing and
\* both generators giving different results for different seeds.
C18_Witness ==
    /\ ~IsNone(random_state)
    /\ runs[1].step = "done"
    /\ runs[2].step = "done"
    /\ runs[1].entropy # runs[2].entropy
    /\ sklearn_fit[0] # sklearn_fit[1]
    /\ np_random[0] # np_random[1]
    /\ "model" \in DOMAIN runs[1].pool
    /\ runs[1].foo.kind = "array"

-----------------------------------------------------------------------------
(* tree_depth called on any finite tree given by children arrays: a node has *)
(* two children, none, or one only (left or right), and the ids are in any   *)
(* order with the root at 0.                                                 *)

ShiftIds(t, d) ==
    [i \in DOMAIN t |->
        <<IF t[i][1] = -1 THEN -1 ELSE t[i][1] + d,
          IF t[i][2] = -1 THEN -1 ELSE t[i][2] + d>>]

\* the trees of k nodes, the ids in depth-first order
RECURSIVE WalkTrees(_)
WalkTrees(k) ==
    IF k = 1 THEN {<< <<-1, -1>> >>}
    ELSE {<< <<1, -1>> >> \o ShiftIds(a, 1) : a \in WalkTrees(k - 1)}
         \cup {<< <<-1, 1>> >> \o ShiftIds(a, 1) : a \in WalkTrees(k - 1)}
         \cup UNION {{<< <<1, 1 + i>> >> \o ShiftIds(a, 1)
                         \o ShiftIds(b, 1 + i) :
                         a \in WalkTrees(i), b \in WalkTrees(k - 1 - i)} :
                     i \in 1..(k - 2)}

\* the tree with its node ids renamed by p
RenumberShape(t, p) ==
    LET old(j) == CHOOSE i \in DOMAIN p : p[i] = j - 1
        id(c) == IF c = -1 THEN -1 ELSE p[c + 1]
    IN [j \in DOMAIN p |-> <<id(t[old(j)][1]), id(t[old(j)][2])>>]

\* a model with the children arrays of t; the arrays tree_depth does not read
\* are left empty
ModelOf(t) ==
    Model([i \in DOMAIN t |-> t[i][1]], [i \in DOMAIN t |-> t[i][2]],
          << >>, << >>, << >>, None)

WalkInit ==
    /\ \E k \in 1..MaxTreeNodes :
          \E p \in Renamings(k) :
              \E t \in WalkTrees(k) : fitted = ModelOf(RenumberShape(t, p))
    /\ pool0 = [k \in {"model"} |-> fitted]
    /\ pool = pool0
    /\ X = [rows |-> 0, cols |-> 0]
    /\ cat_cols = << >>
    /\ ret = [f \in TreeFts |-> NotCalled]
    /\ y = None
    /\ N = None
    /\ random_state = None
    /\ argument_foo = None
    /\ argument_bar = None
    /\ RngIdle
    /\ called = [r \in PrecompRoutines |-> 0]
    /\ routine = "none"
    /\ kwargs = EmptyDict
    /\ returned = EmptyDict
    /\ fits = 0
    /\ phase = "idle"
    /\ resolved = << >>
    /\ ResIdle
    /\ FtIdle

WalkNext == Call_tree_depth

SpecWalk == WalkInit /\ [][WalkNext]_vars

\* the number of children of node i
NrChildren(i) ==
    (IF fitted.children_left[i + 1] # -1 THEN 1 ELSE 0)
    + (IF fitted.children_right[i + 1] # -1 THEN 1 ELSE 0)

\* the nodes reached from the root through nodes that have two children
RECURSIVE ReachedIn(_, _)
ReachedIn(R, n) ==
    IF n = 0 THEN R
    ELSE ReachedIn(R \cup UNION {{fitted.children_left[q + 1],
                                  fitted.children_right[q + 1]} :
                                    q \in {v \in R : NrChildren(v) = 2}},
                   n - 1)

Reached == ReachedIn({0}, node_count(fitted))

\* C22: on a finite tree the walk of tree_depth ends, having met once each
\* node reached from the root through nodes with two children, and returns
\* one depth per node met: node_count depths when every node has two
\* children or none.  A node with one child only is treated as a leaf: its
\* child is not met.
C22_WalkVisitsEachNodeOnce ==
    "tree_depth" \in DOMAIN pool =>
        LET depths == pool["tree_depth"]
            order == node_order(0, fitted.children_left,
                                fitted.children_right)
        IN /\ Len(depths) = Len(order)
           /\ NoDuplicates(order)
           /\ Range(order) = Reached
           /\ (\A i \in Nodes : NrChildren(i) \in {0, 2}) =>
                 /\ Range(order) = Nodes
                 /\ Len(depths) = node_count(fitted)
           /\ \A i \in Range(order) :
                 NrChildren(i) = 1 =>
                     /\ fitted.children_left[i + 1] \notin Range(order)
                     /\ fitted.children_right[i + 1] \notin Range(order)
                     /\ \A k \in DOMAIN order :
                           order[k] = i =>
                               (k = Len(order) \/ depths[k + 1] <= depths[k])

\* C22 witness: tree_depth has returned three depths for a tree of five
\* nodes, one of the nodes met having one child only.
C22_Witness ==
    /\ "tree_depth" \in DOMAIN pool
    /\ node_count(fitted) = 5
    /\ Len(pool["tree_depth"]) = 3
    /\ \E i \in Range(node_order(0, fitted.children_left,
                                  fitted.children_right)) :
          NrChildren(i) = 1

=============================================================================
